---- MODULE Spec2Model ----
(***************************************************************************)
(* A model of bitos: width-bounded integers (bitos_core/src/integer.rs),   *)
(* the TryBits/Bits conversions (bitos_core/src/lib.rs) and the code the   *)
(* #[bitos] attribute generates for enums and structs (bitos_macro_core).  *)
(*                                                                         *)
(* Native words are integers.  An unsigned W-bit word is a number in       *)
(* 0 .. 2^W - 1; a signed W-bit word is a number in -2^(W-1) .. 2^(W-1)-1  *)
(* and its two's-complement pattern is ToBits(x, W).  Option<T> is a       *)
(* sequence: <<>> is None, <<v>> is Some(v).                               *)
(***************************************************************************)
EXTENDS Integers, Sequences, FiniteSets, TLC

\* Widths 1 .. MaxLen are modelled (u1..u7/i1..i7 on 8-bit storage, the native
\* 8-bit integers, u9.. / i9.. on 16-bit storage).
MaxLen == 9

\* Inputs of a width are sampled within Near of 0, of the sign boundary
\* 2^(LEN-1) and of 2^LEN; widths up to 3 are covered exhaustively.
Near == 3

None == <<>>

Some(v) == <<v>>

(***************************************************************************)
(* Native integer arithmetic                                               *)
(***************************************************************************)

\* The two's-complement pattern of a W-bit word (`x as uW`).
ToBits(x, W) == x % (2^W)

\* The signed W-bit word with pattern p (`p as iW`).
ToSigned(p, W) == IF p % (2^W) >= 2^(W - 1) THEN (p % (2^W)) - 2^W ELSE p % (2^W)

RECURSIVE BitAnd(_, _)
\* a & b on non-negative patterns.
BitAnd(a, b) ==
    IF a = 0 \/ b = 0 THEN 0
    ELSE (a % 2) * (b % 2) + 2 * BitAnd(a \div 2, b \div 2)

\* a & b on signed W-bit words.
SignedAnd(a, b, W) == ToSigned(BitAnd(ToBits(a, W), ToBits(b, W)), W)

\* x << n on a signed W-bit word: bits shifted out of the word are dropped.
SignedShl(x, n, W) == ToSigned(ToBits(x, W) * (2^n), W)

\* x >> n on a signed W-bit word: arithmetic shift.
SignedShr(x, n, W) == x \div (2^n)

(***************************************************************************)
(* integer.rs: storage classes                                             *)
(***************************************************************************)

\* The backing word of a width: u1..u7 -> u8, u9..u15 -> u16, u17..u31 -> u32,
\* u33..u63 -> u64 (and the same for iN); 8, 16, 32, 64 are the native types.
StorageBits(LEN) ==
    IF LEN <= 8 THEN 8 ELSE IF LEN <= 16 THEN 16 ELSE IF LEN <= 32 THEN 32 ELSE 64

\* uN / iN is a plain native integer, not a UInt / SInt wrapper.
IsNative(LEN) == LEN \in {8, 16, 32, 64}

\* IsStorageForBits<LEN> is implemented for the W-bit word.
IsStorageForBits(W, LEN) == ~IsNative(LEN) /\ LEN >= 1 /\ LEN < 64 /\ W = StorageBits(LEN)

\* UnsignedInt::new for u8/u16/u32/u64: `value as Self`.
Prim_UnsignedInt_new(W, value) == value % (2^W)

\* SignedInt::new for i8/i16/i32/i64: `value as Self`.
Prim_SignedInt_new(W, value) == ToSigned(value, W)

\* A mask one bit too wide: (1 << (bits + 1)) - 1.
unsigned_mask_wide(bits) == (2^(bits + 1)) - 1

\* (1 << bits) - 1 in u64; every implemented width has bits < 64, so the
\* shift does not wrap.
unsigned_mask(bits) == (2^bits) - 1

\* unsigned_mask(bits) as i64
signed_mask(bits) == unsigned_mask(bits)

(***************************************************************************)
(* integer.rs: UInt<T, LEN>                                                *)
(***************************************************************************)

\* UInt::new(value: T)
UInt_new(W, LEN, value) == BitAnd(value, Prim_UnsignedInt_new(W, unsigned_mask(LEN)))

\* The condition UInt::value() hands to assert_unchecked.
UInt_value_assert(W, LEN, w) == w <= Prim_UnsignedInt_new(W, unsigned_mask(LEN))

\* UInt::value(): the stored word.
UInt_value(W, LEN, w) == w

\* try_from comparing with < instead of <=.
UInt_try_from_strict(W, LEN, value) ==
    IF value < unsigned_mask(LEN)
    THEN Some(UInt_new(W, LEN, Prim_UnsignedInt_new(W, value)))
    ELSE None

\* <UInt as TryFrom<u64>>::try_from(value); <<>> is Err(ValueDoesNotFitErr).
UInt_try_from(W, LEN, value) ==
    IF value <= unsigned_mask(LEN)
    THEN Some(UInt_new(W, LEN, Prim_UnsignedInt_new(W, value)))
    ELSE None

\* <UInt as UnsignedInt>::new(value: u64)
UInt_UnsignedInt_new(W, LEN, value) == UInt_new(W, LEN, Prim_UnsignedInt_new(W, value))

(***************************************************************************)
(* integer.rs: SInt<T, LEN>                                                *)
(***************************************************************************)

\* SInt::new without the sign extension.
SInt_new_masked_only(W, LEN, value) ==
    SignedAnd(value, Prim_SignedInt_new(W, signed_mask(LEN)), W)

\* SInt::new(value: T)
SInt_new(W, LEN, value) ==
    LET masked == SignedAnd(value, Prim_SignedInt_new(W, signed_mask(LEN)), W)
        rem == W - LEN
        sign_extended == SignedShr(SignedShl(masked, rem, W), rem, W)
    IN  sign_extended

\* The two conditions SInt::value() hands to assert_unchecked.
SInt_value_assert(W, LEN, w) ==
    LET max == signed_mask(LEN - 1)
        min == -signed_mask(LEN - 1) - 1
    IN  /\ w <= Prim_SignedInt_new(W, max)
        /\ w >= Prim_SignedInt_new(W, min)

\* SInt::value(): the stored word.
SInt_value(W, LEN, w) == w

(***************************************************************************)
(* The bit-range primitive (BitUtils of the bitut crate) on a native W-bit *)
(* word, given as its pattern p.                                           *)
(***************************************************************************)

\* bit(index); precondition index < W.
Prim_bit(p, index) == (p \div (2^index)) % 2 = 1

\* with_bit(index, value); precondition index < W.
Prim_with_bit(p, index, value) ==
    p - ((p \div (2^index)) % 2) * (2^index) + (IF value THEN 2^index ELSE 0)

\* bits(start, end): the range shifted down to bit 0, zero-extended;
\* precondition start <= end <= W.
Prim_bits(p, start, end) == (p \div (2^start)) % (2^(end - start))

\* with_bits(start, end, value): the range replaced by the low (end - start)
\* bits of value; precondition start <= end <= W.
Prim_with_bits(p, start, end, value) ==
    p - Prim_bits(p, start, end) * (2^start) + (value % (2^(end - start))) * (2^start)

\* The checked forms return None when the precondition is violated.
Prim_try_bit(W, p, index) ==
    IF index < W THEN Some(Prim_bit(p, index)) ELSE None

Prim_try_with_bit(W, p, index, value) ==
    IF index < W THEN Some(Prim_with_bit(p, index, value)) ELSE None

Prim_try_bits(W, p, start, end) ==
    IF start <= end /\ end <= W THEN Some(Prim_bits(p, start, end)) ELSE None

Prim_try_with_bits(W, p, start, end, value) ==
    IF start <= end /\ end <= W THEN Some(Prim_with_bits(p, start, end, value)) ELSE None

\* The same primitive on a signed native word: it works on the word's pattern.
Signed_bit(W, x, index) == Prim_bit(ToBits(x, W), index)

Signed_with_bit(W, x, index, value) ==
    ToSigned(Prim_with_bit(ToBits(x, W), index, value), W)

Signed_bits(W, x, start, end) == ToSigned(Prim_bits(ToBits(x, W), start, end), W)

Signed_with_bits(W, x, start, end, value) ==
    ToSigned(Prim_with_bits(ToBits(x, W), start, end, ToBits(value, W)), W)

Signed_try_bit(W, x, index) ==
    IF index < W THEN Some(Signed_bit(W, x, index)) ELSE None

Signed_try_with_bit(W, x, index, value) ==
    IF index < W THEN Some(Signed_with_bit(W, x, index, value)) ELSE None

Signed_try_bits(W, x, start, end) ==
    IF start <= end /\ end <= W THEN Some(Signed_bits(W, x, start, end)) ELSE None

Signed_try_with_bits(W, x, start, end, value) ==
    IF start <= end /\ end <= W
    THEN Some(Signed_with_bits(W, x, start, end, value))
    ELSE None

(***************************************************************************)
(* integer.rs: impl BitUtils for UInt<T, LEN>                              *)
(***************************************************************************)

UInt_bit(W, LEN, w, index) == Prim_bit(w, index)

UInt_try_bit(W, LEN, w, index) == Prim_try_bit(W, w, index)

\* with_bit without the re-normalising Self::new.
UInt_with_bit_raw(W, LEN, w, index, value) == Prim_with_bit(w, index, value)

UInt_with_bit(W, LEN, w, index, value) == UInt_new(W, LEN, Prim_with_bit(w, index, value))

\* try_with_bit without the re-normalising map(Self::new).
UInt_try_with_bit_raw(W, LEN, w, index, value) == Prim_try_with_bit(W, w, index, value)

UInt_try_with_bit(W, LEN, w, index, value) ==
    LET r == Prim_try_with_bit(W, w, index, value)
    IN  IF r = None THEN None ELSE Some(UInt_new(W, LEN, r[1]))

\* bits that reads from bit 0 instead of start.
UInt_bits_from_zero(W, LEN, w, start, end) == UInt_new(W, LEN, Prim_bits(w, 0, end))

UInt_bits(W, LEN, w, start, end) == UInt_new(W, LEN, Prim_bits(w, start, end))

UInt_try_bits(W, LEN, w, start, end) ==
    LET r == Prim_try_bits(W, w, start, end)
    IN  IF r = None THEN None ELSE Some(UInt_new(W, LEN, r[1]))

\* with_bits without the re-normalising Self::new.
UInt_with_bits_raw(W, LEN, w, start, end, value) ==
    Prim_with_bits(w, start, end, UInt_value(W, LEN, value))

\* with_bits that writes the bits of self instead of those of value.
UInt_with_bits_self(W, LEN, w, start, end, value) ==
    UInt_new(W, LEN, Prim_with_bits(w, start, end, UInt_value(W, LEN, w)))

\* value is the argument's stored word: the code passes value.value().
UInt_with_bits(W, LEN, w, start, end, value) ==
    UInt_new(W, LEN, Prim_with_bits(w, start, end, UInt_value(W, LEN, value)))

UInt_try_with_bits(W, LEN, w, start, end, value) ==
    LET r == Prim_try_with_bits(W, w, start, end, UInt_value(W, LEN, value))
    IN  IF r = None THEN None ELSE Some(UInt_new(W, LEN, r[1]))

(***************************************************************************)
(* integer.rs: impl BitUtils for SInt<T, LEN>                              *)
(***************************************************************************)

SInt_bit(W, LEN, w, index) == Signed_bit(W, w, index)

SInt_try_bit(W, LEN, w, index) == Signed_try_bit(W, w, index)

\* with_bit without the re-normalising Self::new.
SInt_with_bit_raw(W, LEN, w, index, value) == Signed_with_bit(W, w, index, value)

SInt_with_bit(W, LEN, w, index, value) ==
    SInt_new(W, LEN, Signed_with_bit(W, w, index, value))

SInt_try_with_bit(W, LEN, w, index, value) ==
    LET r == Signed_try_with_bit(W, w, index, value)
    IN  IF r = None THEN None ELSE Some(SInt_new(W, LEN, r[1]))

SInt_bits(W, LEN, w, start, end) == SInt_new(W, LEN, Signed_bits(W, w, start, end))

SInt_try_bits(W, LEN, w, start, end) ==
    LET r == Signed_try_bits(W, w, start, end)
    IN  IF r = None THEN None ELSE Some(SInt_new(W, LEN, r[1]))

\* with_bits that writes the bits of self instead of those of value.
SInt_with_bits_self(W, LEN, w, start, end, value) ==
    SInt_new(W, LEN, Signed_with_bits(W, w, start, end, SInt_value(W, LEN, w)))

SInt_with_bits(W, LEN, w, start, end, value) ==
    SInt_new(W, LEN, Signed_with_bits(W, w, start, end, SInt_value(W, LEN, value)))

SInt_try_with_bits(W, LEN, w, start, end, value) ==
    LET r == Signed_try_with_bits(W, w, start, end, SInt_value(W, LEN, value))
    IN  IF r = None THEN None ELSE Some(SInt_new(W, LEN, r[1]))

(***************************************************************************)
(* lib.rs: TryBits / Bits for the integers and bool                        *)
(***************************************************************************)

\* impl_bits_uint: UInt<T, LEN> and the native unsigned integers are their
\* own raw bits.
UInt_try_from_bits(W, LEN, value) == Some(value)

UInt_into_bits(W, LEN, w) == w

UInt_from_bits(W, LEN, value) == value

\* impl_bits_sint for SInt<T, LEN>: Bits = UInt<U, LEN>.
SInt_try_from_bits(W, LEN, value) ==
    Some(SInt_new(W, LEN, ToSigned(UInt_value(W, LEN, value), W)))

\* into_bits by a bare cast of the sign-extended word.
SInt_into_bits_cast(W, LEN, w) == ToBits(SInt_value(W, LEN, w), W)

SInt_into_bits(W, LEN, w) == UInt_new(W, LEN, ToBits(SInt_value(W, LEN, w), W))

SInt_from_bits(W, LEN, value) == SInt_new(W, LEN, ToSigned(UInt_value(W, LEN, value), W))

\* impl_bits_sint for the native signed integers: Bits = the unsigned twin.
PrimSigned_try_from_bits(W, value) == Some(ToSigned(value, W))

PrimSigned_into_bits(W, x) == ToBits(x, W)

PrimSigned_from_bits(W, value) == ToSigned(value, W)

\* impl TryBits / Bits for bool: Bits = u1 = UInt<u8, 1>.
bool_try_from_bits(value) == Some(UInt_value(8, 1, value) = 1)

bool_into_bits(b) == UInt_new(8, 1, IF b THEN 1 ELSE 0)

bool_from_bits(value) == UInt_value(8, 1, value) = 1

(***************************************************************************)
(* The integer state machine: one value of one width-bounded type, and the *)
(* constructions, mutations and conversions applied to it.                 *)
(***************************************************************************)

VARIABLES
    kind,   \* "UInt" (uN), "SInt" (iN) or "bool": the type of the value
    len,    \* LEN, the bit width N of the type
    val,    \* the stored word self.0 (a BOOLEAN for bool)
    last,   \* the last call: [op, in, out]
    ub,     \* TRUE once a condition handed to assert_unchecked was false
    decl,   \* the declaration handed to #[bitos] (enum and struct machines)
    gen,    \* what the generator produced for decl
    written \* a generated record: the raw word handed to from_bits and the
            \* values handed to its setters since, in call order

vars == <<kind, len, val, last, ub, decl, gen, written>>

Widths == 1 .. MaxLen

\* The sampled low LEN bits of an input.
LowParts(LEN) ==
    {p \in (0 .. Near - 1) \cup ((2^LEN - Near) .. (2^LEN - 1))
            \cup ((2^(LEN - 1) - Near) .. (2^(LEN - 1) + Near - 1)) :
        p >= 0 /\ p < 2^LEN}

\* The sampled bits above the low LEN ones, n of them.
HighParts(n) == {h \in {0, 1, 2^n - 1, 2^n \div 2} : h < 2^n}

\* Patterns of the native W-bit word handed to a constructor of width LEN.
NativeInputs(W, LEN) == {h * (2^LEN) + l : h \in HighParts(W - LEN), l \in LowParts(LEN)}

\* u64 inputs: the same, and with a bit above the native word set.
U64Inputs(W, LEN) == NativeInputs(W, LEN) \cup {l + 2^W : l \in LowParts(LEN)}

\* Patterns from which the value argument of with_bits is constructed.
ArgInputs(W, LEN) ==
    {x \in {0, 1, 2^(LEN - 1) - 1, 2^(LEN - 1), 2^W - 1} : x >= 0}

\* Bit positions tried as index, start and end: around 0, LEN and W.
Positions(W, LEN) == {0, 1, LEN - 1, LEN, W - 1, W, W + 1}

\* Every word of the native W-bit type.
AnyWord(k, W) == IF k = "SInt" THEN (-(2^(W - 1))) .. (2^(W - 1) - 1) ELSE 0 .. (2^W - 1)

\* The native word with pattern x, of the type backing kind k.
Word(k, W, x) == IF k = "SInt" THEN ToSigned(x, W) ELSE x

\* new(x) of the wrapper of kind k.
New(k, W, LEN, x) == IF k = "SInt" THEN SInt_new(W, LEN, x) ELSE UInt_new(W, LEN, x)

\* The condition value() hands to assert_unchecked.
ValueAssert(k, W, LEN, w) ==
    IF k = "SInt" THEN SInt_value_assert(W, LEN, w) ELSE UInt_value_assert(W, LEN, w)

\* What value() can return: the stored word, or anything once the asserted
\* condition is false (undefined behaviour).
ValueOutcomes(k, W, LEN, w) ==
    IF ValueAssert(k, W, LEN, w)
    THEN {IF k = "SInt" THEN SInt_value(W, LEN, w) ELSE UInt_value(W, LEN, w)}
    ELSE AnyWord(k, W)

IsWrapper == kind \in {"UInt", "SInt"} /\ ~IsNative(len)

IsPrim == kind \in {"UInt", "SInt"} /\ IsNative(len)

\* UnsignedInt is implemented for every uN, SignedInt for the native iN only.
HasTraitNew == kind = "UInt" \/ IsPrim

Call(op, in, out) == [op |-> op, in |-> in, out |-> out]

\* The caller holds no result: the next call can be made.
Ready == last.op = "ready"

Init ==
    /\ kind \in {"UInt", "SInt", "bool"}
    /\ len \in Widths
    /\ kind = "bool" => len = 1
    /\ val = IF kind = "bool" THEN FALSE ELSE 0
    /\ last = Call("default", <<>>, <<>>)
    /\ ub = FALSE
    /\ written = <<>>
    /\ decl = <<>>
    /\ gen = <<>>

\* #[derive(Default)]: the zero word.
Call_default ==
    /\ Ready
    /\ val' = IF kind = "bool" THEN FALSE ELSE 0
    /\ last' = Call("default", <<>>, <<>>)
    /\ UNCHANGED <<kind, len, ub, decl, written, gen>>

\* UInt::new(x) / SInt::new(x)
Call_new ==
    /\ Ready /\ IsWrapper
    /\ \E p \in NativeInputs(StorageBits(len), len) :
        LET W == StorageBits(len)
            x == Word(kind, W, p)
        IN  /\ val' = New(kind, W, len, x)
            /\ last' = Call("new", <<x>>, <<val'>>)
    /\ UNCHANGED <<kind, len, ub, decl, written, gen>>

\* UnsignedInt::new(v: u64) of uN; SignedInt::new(v: i64) of the native iN.
Call_trait_new ==
    /\ Ready /\ HasTraitNew
    /\ \E p \in U64Inputs(StorageBits(len), len) :
        LET W == StorageBits(len)
            v == IF kind = "SInt" THEN p - 2^W ELSE p
        IN  /\ val' = IF kind = "SInt" THEN Prim_SignedInt_new(W, v)
                      ELSE IF IsNative(len) THEN Prim_UnsignedInt_new(W, v)
                      ELSE UInt_UnsignedInt_new(W, len, v)
            /\ last' = Call("trait_new", <<v>>, <<val'>>)
    /\ UNCHANGED <<kind, len, ub, decl, written, gen>>

\* UInt::try_from(v: u64): on Err no value is produced.
Call_try_from ==
    /\ Ready /\ kind = "UInt" /\ IsWrapper
    /\ \E v \in U64Inputs(StorageBits(len), len) :
        LET r == UInt_try_from(StorageBits(len), len, v)
        IN  /\ val' = IF r = None THEN val ELSE r[1]
            /\ last' = Call("try_from", <<v>>, r)
    /\ UNCHANGED <<kind, len, ub, decl, written, gen>>

\* value()
Call_value ==
    /\ Ready /\ IsWrapper
    /\ \E r \in ValueOutcomes(kind, StorageBits(len), len, val) :
        last' = Call("value", <<>>, <<r>>)
    /\ ub' = (ub \/ ~ValueAssert(kind, StorageBits(len), len, val))
    /\ UNCHANGED <<kind, len, val, decl, written, gen>>

\* The BitUtils methods of the wrapper of kind k.
Bit(k, W, LEN, w, i) ==
    IF k = "SInt" THEN SInt_bit(W, LEN, w, i) ELSE UInt_bit(W, LEN, w, i)

TryBit(k, W, LEN, w, i) ==
    IF k = "SInt" THEN SInt_try_bit(W, LEN, w, i) ELSE UInt_try_bit(W, LEN, w, i)

WithBit(k, W, LEN, w, i, b) ==
    IF k = "SInt" THEN SInt_with_bit(W, LEN, w, i, b) ELSE UInt_with_bit(W, LEN, w, i, b)

TryWithBit(k, W, LEN, w, i, b) ==
    IF k = "SInt" THEN SInt_try_with_bit(W, LEN, w, i, b)
    ELSE UInt_try_with_bit(W, LEN, w, i, b)

BitsOf(k, W, LEN, w, s, e) ==
    IF k = "SInt" THEN SInt_bits(W, LEN, w, s, e) ELSE UInt_bits(W, LEN, w, s, e)

TryBits(k, W, LEN, w, s, e) ==
    IF k = "SInt" THEN SInt_try_bits(W, LEN, w, s, e) ELSE UInt_try_bits(W, LEN, w, s, e)

WithBits(k, W, LEN, w, s, e, v) ==
    IF k = "SInt" THEN SInt_with_bits(W, LEN, w, s, e, v)
    ELSE UInt_with_bits(W, LEN, w, s, e, v)

TryWithBits(k, W, LEN, w, s, e, v) ==
    IF k = "SInt" THEN SInt_try_with_bits(W, LEN, w, s, e, v)
    ELSE UInt_try_with_bits(W, LEN, w, s, e, v)

\* bit(index): the unchecked form is called within its precondition.
Call_bit ==
    /\ Ready /\ IsWrapper
    /\ \E i \in Positions(StorageBits(len), len) :
        /\ i < StorageBits(len)
        /\ last' = Call("bit", <<i>>, <<Bit(kind, StorageBits(len), len, val, i)>>)
    /\ UNCHANGED <<kind, len, val, ub, decl, written, gen>>

\* try_bit(index)
Call_try_bit ==
    /\ Ready /\ IsWrapper
    /\ \E i \in Positions(StorageBits(len), len) :
        last' = Call("try_bit", <<i>>, TryBit(kind, StorageBits(len), len, val, i))
    /\ UNCHANGED <<kind, len, val, ub, decl, written, gen>>

\* with_bit(index, value)
Call_with_bit ==
    /\ Ready /\ IsWrapper
    /\ \E i \in Positions(StorageBits(len), len), b \in BOOLEAN :
        /\ i < StorageBits(len)
        /\ val' = WithBit(kind, StorageBits(len), len, val, i, b)
        /\ last' = Call("with_bit", <<i, b>>, <<val'>>)
    /\ UNCHANGED <<kind, len, ub, decl, written, gen>>

\* try_with_bit(index, value): on None no value is produced.
Call_try_with_bit ==
    /\ Ready /\ IsWrapper
    /\ \E i \in Positions(StorageBits(len), len), b \in BOOLEAN :
        LET r == TryWithBit(kind, StorageBits(len), len, val, i, b)
        IN  /\ val' = IF r = None THEN val ELSE r[1]
            /\ last' = Call("try_with_bit", <<i, b>>, r)
    /\ UNCHANGED <<kind, len, ub, decl, written, gen>>

\* bits(start, end)
Call_bits ==
    /\ Ready /\ IsWrapper
    /\ \E s \in Positions(StorageBits(len), len), e \in Positions(StorageBits(len), len) :
        /\ s <= e /\ e <= StorageBits(len)
        /\ val' = BitsOf(kind, StorageBits(len), len, val, s, e)
        /\ last' = Call("bits", <<s, e>>, <<val'>>)
    /\ UNCHANGED <<kind, len, ub, decl, written, gen>>

\* try_bits(start, end)
Call_try_bits ==
    /\ Ready /\ IsWrapper
    /\ \E s \in Positions(StorageBits(len), len), e \in Positions(StorageBits(len), len) :
        LET r == TryBits(kind, StorageBits(len), len, val, s, e)
        IN  /\ val' = IF r = None THEN val ELSE r[1]
            /\ last' = Call("try_bits", <<s, e>>, r)
    /\ UNCHANGED <<kind, len, ub, decl, written, gen>>

\* with_bits(start, end, value): value is a value of the same type, and the
\* code reads it with value.value().
Call_with_bits ==
    /\ Ready /\ IsWrapper
    /\ \E s \in Positions(StorageBits(len), len), e \in Positions(StorageBits(len), len),
          p \in ArgInputs(StorageBits(len), len) :
        LET W == StorageBits(len)
            arg == New(kind, W, len, Word(kind, W, p))
        IN  /\ s <= e /\ e <= W
            /\ \E v \in ValueOutcomes(kind, W, len, arg) :
                val' = WithBits(kind, W, len, val, s, e, v)
            /\ ub' = (ub \/ ~ValueAssert(kind, W, len, arg))
            /\ last' = Call("with_bits", <<s, e, arg>>, <<val'>>)
    /\ UNCHANGED <<kind, len, decl, written, gen>>

\* w.with_bits(start, end, w.bits(start, end)): the range is written back.
Call_with_bits_of_bits ==
    /\ Ready /\ IsWrapper
    /\ \E s \in Positions(StorageBits(len), len), e \in Positions(StorageBits(len), len) :
        LET W == StorageBits(len)
            arg == BitsOf(kind, W, len, val, s, e)
        IN  /\ s <= e /\ e <= W
            /\ \E v \in ValueOutcomes(kind, W, len, arg) :
                val' = WithBits(kind, W, len, val, s, e, v)
            /\ ub' = (ub \/ ~ValueAssert(kind, W, len, arg))
            /\ last' = Call("with_bits_of_bits", <<s, e, val>>, <<val'>>)
    /\ UNCHANGED <<kind, len, decl, written, gen>>

\* try_with_bits(start, end, value)
Call_try_with_bits ==
    /\ Ready /\ IsWrapper
    /\ \E s \in Positions(StorageBits(len), len), e \in Positions(StorageBits(len), len),
          p \in {0, 2^StorageBits(len) - 1} :
        LET W == StorageBits(len)
            arg == New(kind, W, len, Word(kind, W, p))
        IN  /\ \E v \in ValueOutcomes(kind, W, len, arg) :
                LET r == TryWithBits(kind, W, len, val, s, e, v)
                IN  /\ val' = IF r = None THEN val ELSE r[1]
                    /\ last' = Call("try_with_bits", <<s, e, arg>>, r)
            /\ ub' = (ub \/ ~ValueAssert(kind, W, len, arg))
    /\ UNCHANGED <<kind, len, decl, written, gen>>

\* into_bits of the value's type.
IntoBits(k, W, LEN, w) ==
    IF k = "bool" THEN bool_into_bits(w)
    ELSE IF k = "UInt" THEN UInt_into_bits(W, LEN, w)
    ELSE IF IsNative(LEN) THEN PrimSigned_into_bits(W, w)
    ELSE SInt_into_bits(W, LEN, w)

\* from_bits of the value's type.
FromBits(k, W, LEN, raw) ==
    IF k = "bool" THEN bool_from_bits(raw)
    ELSE IF k = "UInt" THEN UInt_from_bits(W, LEN, raw)
    ELSE IF IsNative(LEN) THEN PrimSigned_from_bits(W, raw)
    ELSE SInt_from_bits(W, LEN, raw)

\* try_from_bits of the value's type.
TryFromBits(k, W, LEN, raw) ==
    IF k = "bool" THEN bool_try_from_bits(raw)
    ELSE IF k = "UInt" THEN UInt_try_from_bits(W, LEN, raw)
    ELSE IF IsNative(LEN) THEN PrimSigned_try_from_bits(W, raw)
    ELSE SInt_try_from_bits(W, LEN, raw)

\* The raw-bits conversions read a wrapper with value().
ReadsWithValue(k, LEN) == k = "bool" \/ (k = "SInt" /\ ~IsNative(LEN))

\* What self.value() can hand to into_bits.
SelfOutcomes(k, W, LEN, w) ==
    IF k = "SInt" /\ ~IsNative(LEN) THEN ValueOutcomes("SInt", W, LEN, w) ELSE {w}

\* What value.value() of a raw-bits argument can hand to from_bits.
RawOutcomes(k, W, LEN, raw) ==
    IF ReadsWithValue(k, LEN) THEN ValueOutcomes("UInt", W, LEN, raw) ELSE {raw}

\* A value of the raw-bits type: UInt<U, LEN>, or the native unsigned word.
RawBits(W, LEN, p) == IF IsNative(LEN) THEN p ELSE UInt_new(W, LEN, p)

\* A bool value is set.
Call_bool ==
    /\ Ready /\ kind = "bool"
    /\ \E b \in BOOLEAN :
        /\ val' = b
        /\ last' = Call("bool", <<b>>, <<b>>)
    /\ UNCHANGED <<kind, len, ub, decl, written, gen>>

\* x.into_bits()
Call_into_bits ==
    /\ Ready
    /\ \E v \in SelfOutcomes(kind, StorageBits(len), len, val) :
        last' = Call("into_bits", <<val>>, <<IntoBits(kind, StorageBits(len), len, v)>>)
    /\ ub' = (ub \/ (IsWrapper /\ kind = "SInt" /\ ~ValueAssert(kind, StorageBits(len), len, val)))
    /\ UNCHANGED <<kind, len, val, decl, written, gen>>

\* from_bits applied to the raw bits into_bits has just returned.
Call_from_bits ==
    /\ last.op = "into_bits"
    /\ LET W == StorageBits(len)
           raw == last.out[1]
       IN  /\ \E v \in RawOutcomes(kind, W, len, raw) :
                val' = FromBits(kind, W, len, v)
           /\ ub' = (ub \/ (ReadsWithValue(kind, len) /\ ~UInt_value_assert(W, len, raw)))
           /\ last' = Call("from_bits", <<last.in[1], raw>>, <<val'>>)
    /\ UNCHANGED <<kind, len, decl, written, gen>>

\* try_from_bits applied to any raw bits.
Call_try_from_bits ==
    /\ Ready
    /\ \E p \in NativeInputs(StorageBits(len), len) :
        LET W == StorageBits(len)
            raw == RawBits(W, len, p)
        IN  /\ \E v \in RawOutcomes(kind, W, len, raw) :
                LET r == TryFromBits(kind, W, len, v)
                IN  /\ val' = IF r = None THEN val ELSE r[1]
                    /\ last' = Call("try_from_bits", <<raw>>, r)
            /\ ub' = (ub \/ (ReadsWithValue(kind, len) /\ ~UInt_value_assert(W, len, raw)))
    /\ UNCHANGED <<kind, len, decl, written, gen>>

\* The caller is done with the result of the last call.
Return ==
    /\ ~Ready
    /\ last' = Call("ready", <<>>, <<>>)
    /\ UNCHANGED <<kind, len, val, ub, decl, written, gen>>

Next ==
    \/ Return
    \/ Call_default
    \/ Call_new
    \/ Call_trait_new
    \/ Call_try_from
    \/ Call_value
    \/ Call_bit
    \/ Call_try_bit
    \/ Call_with_bit
    \/ Call_try_with_bit
    \/ Call_bits
    \/ Call_try_bits
    \/ Call_with_bits
    \/ Call_with_bits_of_bits
    \/ Call_try_with_bits
    \/ Call_bool
    \/ Call_into_bits
    \/ Call_from_bits
    \/ Call_try_from_bits

Spec == Init /\ [][Next]_vars

(***************************************************************************)
(* integer.rs: two with_bits calls in a row                                *)
(***************************************************************************)

\* The widths 1 .. MaxComposeLen are tried.
MaxComposeLen == 3

\* Patterns from which the two written values are constructed: zeros, ones,
\* and alternating bits.
ComposeArgs(W) == {0, 2^W - 1, (2^W - 1) \div 3}

InitCompose ==
    /\ kind \in {"UInt", "SInt"}
    /\ len \in 1 .. MaxComposeLen
    /\ val \in {New(kind, StorageBits(len), len, Word(kind, StorageBits(len), p)) :
                    p \in ComposeArgs(StorageBits(len))}
    /\ last = Call("ready", <<>>, <<>>)
    /\ ub = FALSE
    /\ written = <<>>
    /\ decl = <<>>
    /\ gen = <<>>

\* w.with_bits(s1, e1, a).with_bits(s2, e2, b), and the same two writes in
\* the other order.
Call_with_bits_twice ==
    /\ Ready /\ IsWrapper
    /\ \E s1 \in Positions(StorageBits(len), len), e1 \in Positions(StorageBits(len), len),
          s2 \in Positions(StorageBits(len), len), e2 \in Positions(StorageBits(len), len),
          p \in ComposeArgs(StorageBits(len)), q \in ComposeArgs(StorageBits(len)) :
        LET W == StorageBits(len)
            a == New(kind, W, len, Word(kind, W, p))
            b == New(kind, W, len, Word(kind, W, q))
        IN  /\ s1 <= e1 /\ e1 <= W /\ s2 <= e2 /\ e2 <= W
            /\ \E va \in ValueOutcomes(kind, W, len, a), vb \in ValueOutcomes(kind, W, len, b) :
                /\ val' = WithBits(kind, W, len,
                                   WithBits(kind, W, len, val, s1, e1, va), s2, e2, vb)
                /\ last' = Call("with_bits_twice", <<s1, e1, a, s2, e2, b, val>>,
                                <<val', WithBits(kind, W, len,
                                            WithBits(kind, W, len, val, s2, e2, vb),
                                            s1, e1, va)>>)
            /\ ub' = (ub \/ ~ValueAssert(kind, W, len, a) \/ ~ValueAssert(kind, W, len, b))
    /\ UNCHANGED <<kind, len, decl, written, gen>>

NextCompose ==
    \/ Call_with_bits_twice
    \/ Return

SpecCompose == InitCompose /\ [][NextCompose]_vars

(***************************************************************************)
(* enum_.rs: the code #[bitos(BITS)] generates for an enum                 *)
(***************************************************************************)

\* Explicit discriminants of the sampled declarations are 0 .. MaxDisc.
MaxDisc == 4

\* The bit widths of the sampled enum declarations; an enum of width B has
\* up to 2^B variants.
EnumBitlens == {1, 2}

\* UnsignedInt::new(v: u64) of the raw-bits type uN.
uN_UnsignedInt_new(LEN, v) ==
    IF IsNative(LEN) THEN Prim_UnsignedInt_new(StorageBits(LEN), v)
    ELSE UInt_UnsignedInt_new(StorageBits(LEN), LEN, v)

RECURSIVE Discriminants(_)
\* `Variant as u64` for each variant in order: an explicit discriminant is
\* taken as written, an implicit one is the previous plus one, the first 0.
Discriminants(explicit) ==
    IF explicit = <<>> THEN <<>>
    ELSE LET n == Len(explicit)
             init == Discriminants(SubSeq(explicit, 1, n - 1))
             d == IF explicit[n] # None THEN explicit[n][1]
                  ELSE IF n = 1 THEN 0 ELSE init[n - 1] + 1
         IN  Append(init, d)

\* BitEnum::new decides from the variant count alone that Bits is emitted.
BitEnum_new_bits_impl(bitlen, variants) == 2^bitlen = Len(variants)

\* BitEnum::new: TryBits is always emitted, Bits when bits_impl is Some.
BitEnum_new(bitlen, variants) ==
    [try_bits_impl |-> TRUE, bits_impl |-> BitEnum_new_bits_impl(bitlen, variants)]

\* The generated try_from_bits: the first arm whose constant equals the value.
Enum_try_from_bits(bitlen, variants, value) ==
    LET v == UInt_value(StorageBits(bitlen), bitlen, value)
        arms == {i \in 1 .. Len(variants) : variants[i] = v}
    IN  IF arms = {} THEN None
        ELSE Some(CHOOSE i \in arms : \A j \in arms : i <= j)

\* The generated into_bits: UnsignedInt::new(self as u64).
Enum_into_bits(bitlen, variants, i) == uN_UnsignedInt_new(bitlen, variants[i])

\* The raw patterns of the enum's raw-bits type.
EnumRaws(bitlen) == {uN_UnsignedInt_new(bitlen, p) : p \in 0 .. (2^bitlen - 1)}

\* The variants' spellings: no discriminant, or an explicit one.
VariantDecls == {None} \cup {Some(d) : d \in 0 .. MaxDisc}

\* The declarations rustc accepts: discriminants are pairwise distinct.
EnumDecls ==
    {[bitlen |-> b, variants |-> Discriminants(e)] :
        b \in EnumBitlens,
        e \in UNION {[1 .. n -> VariantDecls] : n \in 1 .. 4}}

DistinctDiscriminants(variants) ==
    \A i \in 1 .. Len(variants), j \in 1 .. Len(variants) :
        i # j => variants[i] # variants[j]

InitEnum ==
    /\ kind = "enum"
    /\ decl \in EnumDecls
    /\ Len(decl.variants) <= 2^(decl.bitlen)
    /\ DistinctDiscriminants(decl.variants)
    /\ len = decl.bitlen
    /\ gen = <<>>
    /\ val = 1
    /\ last = Call("ready", <<>>, <<>>)
    /\ ub = FALSE
    /\ written = <<>>

\* The attribute macro runs on the declaration.
Enum_generate ==
    /\ kind = "enum" /\ gen = <<>>
    /\ gen' = BitEnum_new(decl.bitlen, decl.variants)
    /\ UNCHANGED <<kind, len, val, last, ub, decl, written>>

\* A variant is named.
Enum_variant ==
    /\ kind = "enum" /\ gen # <<>> /\ Ready
    /\ \E i \in 1 .. Len(decl.variants) :
        /\ val' = i
        /\ last' = Call("variant", <<i>>, <<i>>)
    /\ UNCHANGED <<kind, len, ub, decl, written, gen>>

\* x.into_bits()
Enum_call_into_bits ==
    /\ kind = "enum" /\ gen # <<>> /\ Ready
    /\ last' = Call("into_bits", <<val>>, <<Enum_into_bits(decl.bitlen, decl.variants, val)>>)
    /\ UNCHANGED <<kind, len, val, ub, decl, written, gen>>

\* try_from_bits(raw)
Enum_call_try_from_bits ==
    /\ kind = "enum" /\ gen # <<>> /\ Ready
    /\ \E raw \in EnumRaws(decl.bitlen) :
        LET r == Enum_try_from_bits(decl.bitlen, decl.variants, raw)
        IN  /\ val' = IF r = None THEN val ELSE r[1]
            /\ last' = Call("try_from_bits", <<raw>>, r)
    /\ UNCHANGED <<kind, len, ub, decl, written, gen>>

\* The generated from_bits: try_from_bits(value).unwrap_unchecked().  On None
\* the behaviour is undefined: any variant may come out.
Enum_from_bits_outcomes(bitlen, variants, raw) ==
    LET r == Enum_try_from_bits(bitlen, variants, raw)
    IN  IF r = None THEN 1 .. Len(variants) ELSE {r[1]}

\* from_bits applied to the raw bits into_bits has just returned.
Enum_call_from_bits ==
    /\ kind = "enum" /\ gen # <<>> /\ gen.bits_impl
    /\ last.op = "into_bits"
    /\ LET raw == last.out[1]
       IN  /\ val' \in Enum_from_bits_outcomes(decl.bitlen, decl.variants, raw)
           /\ ub' = (ub \/ Enum_try_from_bits(decl.bitlen, decl.variants, raw) = None)
           /\ last' = Call("from_bits", <<last.in[1], raw>>, <<val'>>)
    /\ UNCHANGED <<kind, len, decl, written, gen>>

\* from_bits applied to any raw bits.
Enum_call_from_bits_raw ==
    /\ kind = "enum" /\ gen # <<>> /\ gen.bits_impl /\ Ready
    /\ \E raw \in EnumRaws(decl.bitlen) :
        /\ val' \in Enum_from_bits_outcomes(decl.bitlen, decl.variants, raw)
        /\ ub' = (ub \/ Enum_try_from_bits(decl.bitlen, decl.variants, raw) = None)
        /\ last' = Call("from_bits_raw", <<raw>>, <<val'>>)
    /\ UNCHANGED <<kind, len, decl, written, gen>>

\* try_from_bits applied to the raw bits into_bits has just returned.
Enum_call_try_from_bits_back ==
    /\ kind = "enum" /\ gen # <<>>
    /\ last.op = "into_bits"
    /\ LET r == Enum_try_from_bits(decl.bitlen, decl.variants, last.out[1])
       IN  /\ val' = IF r = None THEN val ELSE r[1]
           /\ last' = Call("try_from_bits_back", <<last.in[1], last.out[1]>>, r)
    /\ UNCHANGED <<kind, len, ub, decl, written, gen>>

NextEnum ==
    \/ Enum_generate
    \/ Enum_variant
    \/ Enum_call_into_bits
    \/ Enum_call_try_from_bits
    \/ Enum_call_try_from_bits_back
    \/ Enum_call_from_bits
    \/ Enum_call_from_bits_raw
    \/ Return

SpecEnum == InitEnum /\ [][NextEnum]_vars

(***************************************************************************)
(* common.rs, struct_.rs: the layout checks #[bitos(BITS)] generates for a *)
(* struct                                                                  *)
(***************************************************************************)

\* The sampled records have a total width of 1 .. MaxStructBits bits.
MaxStructBits == 4

\* The sampled records have up to MaxFields fields.
MaxFields == 2

\* extract() that takes the end of a..=b as written, like the end of a..b.
BitsAttr_extract_closed_as_written(attr) ==
    IF attr.form = "single" THEN [start |-> attr.a[1], end |-> Some(attr.a[1] + 1)]
    ELSE [start |-> IF attr.a = None THEN 0 ELSE attr.a[1], end |-> attr.b]

\* BitsAttr::extract: #[bits(a)] is a..a+1; a..b is taken as written; a..=b
\* ends at b + 1; a start left out is 0, an end left out stays None.
BitsAttr_extract(attr) ==
    IF attr.form = "single" THEN [start |-> attr.a[1], end |-> Some(attr.a[1] + 1)]
    ELSE IF attr.form = "half"
    THEN [start |-> IF attr.a = None THEN 0 ELSE attr.a[1], end |-> attr.b]
    ELSE [start |-> IF attr.a = None THEN 0 ELSE attr.a[1],
          end |-> IF attr.b = None THEN None ELSE Some(attr.b[1] + 1)]

\* StructField::bitrange: an end left out is the record's width.
StructField_bitrange(field, bitlen) ==
    LET bits == BitsAttr_extract(field.attr)
    IN  [start |-> bits.start, end |-> IF bits.end = None THEN bitlen ELSE bits.end[1]]

\* `x as u8`
as_u8(x) == x % 256

\* StructField::bitlen: BITS of the raw bits of the field type (of T for
\* Option<T>), times the length for an array [T; len].
StructField_bitlen(field) ==
    IF field.ty.form = "array" THEN field.ty.bits * field.ty.count ELSE field.ty.bits

\* usize::saturating_sub
saturating_sub(a, b) == IF a >= b THEN a - b ELSE 0

\* assertions() that checks the start of the range only.
StructField_assertions_start_only(field, bitlen) ==
    LET range == StructField_bitrange(field, bitlen)
        specified_bitlen == saturating_sub(range.end, range.start)
    IN  (IF range.start > bitlen THEN {"start out of range"} ELSE {})
        \cup (IF StructField_bitlen(field) # specified_bitlen
              THEN {"wrong bit length"} ELSE {})

\* StructField::assertions: the build errors of one field.
StructField_assertions(field, bitlen) ==
    LET range == StructField_bitrange(field, bitlen)
        specified_bitlen == saturating_sub(range.end, range.start)
    IN  (IF range.start > bitlen THEN {"start out of range"} ELSE {})
        \cup (IF range.end > bitlen THEN {"end out of range"} ELSE {})
        \cup (IF StructField_bitlen(field) # specified_bitlen
              THEN {"wrong bit length"} ELSE {})

\* StructField::getter: bits_start and bits_end of the generated getter.
StructField_getter(field, bitlen) ==
    LET bits == BitsAttr_extract(field.attr)
    IN  [start |-> as_u8(bits.start),
         end |-> as_u8(IF bits.end = None THEN bitlen ELSE bits.end[1])]

\* StructField::setters: bits_start and bits_end of the generated setters.
StructField_setters(field, bitlen) ==
    LET bits == BitsAttr_extract(field.attr)
    IN  [start |-> as_u8(bits.start),
         end |-> as_u8(IF bits.end = None THEN bitlen ELSE bits.end[1])]

\* A mask of the field's length that is not moved up to the field's start.
StructField_mask_unshifted(field, bitlen) ==
    LET bits == BitsAttr_extract(field.attr)
        bits_start == as_u8(bits.start)
        bits_end == as_u8(IF bits.end = None THEN bitlen ELSE bits.end[1])
        len_ == saturating_sub(bits_end, bits_start)
    IN  BitAnd((2^len_) - 1, (2^bitlen) - 1)

\* StructField::mask: the value of the field's _MASK constant.  The sampled
\* ranges end below bit 64, so the casts to u64 cut nothing.
StructField_mask(field, bitlen) ==
    LET bits == BitsAttr_extract(field.attr)
        bits_start == as_u8(bits.start)
        bits_end == as_u8(IF bits.end = None THEN bitlen ELSE bits.end[1])
        len_ == saturating_sub(bits_end, bits_start)
        mask_value == ((2^len_) - 1) * (2^bits_start)
    IN  BitAnd(mask_value, (2^bitlen) - 1)

\* BitStruct::new: the raw word of the record is the type named u{bitlen}.
BitStruct_inner_ty(bitlen) == [kind |-> "UInt", len |-> bitlen]

\* BitStruct::new: the assertions of every field (each error names its
\* field), the raw word, and the ranges the accessors of each field use.
BitStruct_new(bitlen, fields) ==
    [errors |-> UNION {{<<i, e>> : e \in StructField_assertions(fields[i], bitlen)} :
                            i \in 1 .. Len(fields)},
     inner_ty |-> BitStruct_inner_ty(bitlen),
     getters |-> [i \in 1 .. Len(fields) |-> StructField_getter(fields[i], bitlen)],
     setters |-> [i \in 1 .. Len(fields) |-> StructField_setters(fields[i], bitlen)],
     masks |-> [i \in 1 .. Len(fields) |-> StructField_mask(fields[i], bitlen)]]

\* The #[bits(..)] attributes of a field of a record of width B.
BitsAttrs(B) ==
    {[form |-> "single", a |-> Some(a), b |-> None] : a \in 0 .. B}
    \cup {[form |-> "half", a |-> a, b |-> b] :
            a \in {None} \cup {Some(x) : x \in 0 .. B + 1},
            b \in {None} \cup {Some(x) : x \in 0 .. B + 1}}
    \cup {[form |-> "closed", a |-> a, b |-> Some(b)] :
            a \in {None} \cup {Some(x) : x \in 0 .. B}, b \in 0 .. B}

\* FieldTy::new: a plain type T, Option<T>, or an array [T; count]; bits is
\* BITS of the raw bits of T.
FieldTys(B) ==
    {[form |-> "simple", bits |-> n, count |-> 1] : n \in 1 .. B}
    \cup {[form |-> "try", bits |-> n, count |-> 1] : n \in {1, B}}
    \cup {[form |-> "array", bits |-> n, count |-> c] : n \in {1, 2}, c \in 0 .. 2}

\* The fields of a record of width B: an attribute and a type.
FieldDecls(B) == {[attr |-> at, ty |-> t] : at \in BitsAttrs(B), t \in FieldTys(B)}

\* The fields declared next to the first one: a plain type at a range whose
\* ends are 0, the middle or the width of the record.
OtherFieldDecls(B) ==
    {[attr |-> [form |-> "half", a |-> Some(r[1]), b |-> Some(r[2])],
      ty |-> [form |-> "simple", bits |-> r[2] - r[1], count |-> 1]] :
        r \in {q \in {0, B \div 2} \X {B \div 2, B} : q[1] < q[2]}}

\* Two half-open ranges share a bit.
Overlap(r1, r2) ==
    /\ r1.start < r1.end /\ r2.start < r2.end
    /\ r1.start < r2.end /\ r2.start < r1.end

InitStruct ==
    /\ kind = "struct"
    /\ len \in 1 .. MaxStructBits
    /\ \E f \in FieldDecls(len) :
        \E m \in 0 .. MaxFields - 1 :
            \E rest \in [1 .. m -> OtherFieldDecls(len)] :
                decl = [bitlen |-> len, fields |-> <<f>> \o rest]
    /\ gen = <<>>
    /\ val = 0
    /\ last = Call("ready", <<>>, <<>>)
    /\ ub = FALSE
    /\ written = <<>>

\* The attribute macro runs on the declaration.
Struct_generate ==
    /\ kind = "struct" /\ gen = <<>>
    /\ gen' = BitStruct_new(decl.bitlen, decl.fields)
    /\ last' = Call("generate", <<>>, <<>>)
    /\ UNCHANGED <<kind, len, val, ub, decl, written>>

NextStruct ==
    \/ Struct_generate
    \/ Return

SpecStruct == InitStruct /\ [][NextStruct]_vars

(***************************************************************************)
(* struct_.rs: the accessors #[bitos(BITS)] generates for a struct         *)
(***************************************************************************)

\* The sampled records with accessors have a total width of 2 .. MaxRecordBits.
MaxRecordBits == 8

\* UnsignedInt::value of uN: the value as u64.
uN_UnsignedInt_value(LEN, w) ==
    IF IsNative(LEN) THEN w ELSE UInt_value(StorageBits(LEN), LEN, w)

\* bits(start, end) of the raw word uN of a record.
uN_bits(LEN, w, start, end) ==
    IF IsNative(LEN) THEN Prim_bits(w, start, end)
    ELSE UInt_bits(StorageBits(LEN), LEN, w, start, end)

\* with_bits(start, end, value) of the raw word uN of a record.
uN_with_bits(LEN, w, start, end, value) ==
    IF IsNative(LEN) THEN Prim_with_bits(w, start, end, value)
    ELSE UInt_with_bits(StorageBits(LEN), LEN, w, start, end, value)

\* value.to_bits() in a setter: the raw bits of a field value.  An enum
\* value is the index of its variant.
Field_to_bits(ty, value) ==
    IF ty.kind = "enum" THEN Enum_into_bits(ty.bits, ty.variants, value)
    ELSE IntoBits(ty.kind, StorageBits(ty.bits), ty.bits, value)

\* <field_ty>::from_bits in a getter: what it can return.
Field_from_bits(ty, raw) ==
    IF ty.kind = "enum" THEN Enum_from_bits_outcomes(ty.bits, ty.variants, raw)
    ELSE {FromBits(ty.kind, StorageBits(ty.bits), ty.bits, raw)}

\* The generated set_<field>(value) of a plain field: the new raw word.
Generated_setter(bitlen, w, ty, range, value) ==
    LET value_bits == Field_to_bits(ty, value)
        value_upcast ==
            uN_UnsignedInt_new(bitlen, uN_UnsignedInt_value(ty.bits, value_bits))
    IN  uN_with_bits(bitlen, w, range.start, range.end, value_upcast)

\* The generated <field>() of a plain field: what it can return.
Generated_getter(bitlen, w, ty, range) ==
    LET extracted_bits == uN_bits(bitlen, w, range.start, range.end)
        extracted_downcast ==
            uN_UnsignedInt_new(ty.bits, uN_UnsignedInt_value(bitlen, extracted_bits))
    IN  Field_from_bits(ty, extracted_downcast)

\* The getter's from_bits unwraps None: undefined behaviour.
Generated_getter_ub(bitlen, w, ty, range) ==
    LET extracted_bits == uN_bits(bitlen, w, range.start, range.end)
        extracted_downcast ==
            uN_UnsignedInt_new(ty.bits, uN_UnsignedInt_value(bitlen, extracted_bits))
    IN  ty.kind = "enum" /\ Enum_try_from_bits(ty.bits, ty.variants, extracted_downcast) = None

\* The enums of one bit for which the generator emits from_bits, with
\* discriminants up to 2.
RecordEnums ==
    {d \in EnumDecls :
        /\ d.bitlen = 1 /\ BitEnum_new_bits_impl(d.bitlen, d.variants)
        /\ DistinctDiscriminants(d.variants)
        /\ \A i \in 1 .. Len(d.variants) : d.variants[i] <= 2}

\* The plain field types of n bits: uN, iN, and for one bit bool and enums.
RecordFieldTys(n) ==
    {[form |-> "simple", bits |-> n, count |-> 1, kind |-> k, variants |-> <<>>] :
        k \in {"UInt", "SInt"}}
    \cup (IF n # 1 THEN {}
          ELSE {[form |-> "simple", bits |-> 1, count |-> 1, kind |-> "bool",
                 variants |-> <<>>]}
               \cup {[form |-> "simple", bits |-> 1, count |-> 1, kind |-> "enum",
                      variants |-> d.variants] : d \in RecordEnums})

\* The values of a field type: the stored words of uN and iN, the booleans,
\* the variants of an enum by index.
FieldValues(ty) ==
    CASE ty.kind = "UInt" -> 0 .. (2^ty.bits - 1)
      [] ty.kind = "SInt" -> (-(2^(ty.bits - 1))) .. (2^(ty.bits - 1) - 1)
      [] ty.kind = "bool" -> BOOLEAN
      [] ty.kind = "enum" -> 1 .. Len(ty.variants)

\* The sampled records of width B: two fields, at 0..b and at b.. (its end
\* left out).
RecordDecls(B) ==
    UNION {{[bitlen |-> B,
             fields |-> <<[attr |-> [form |-> "half", a |-> Some(0), b |-> Some(c)],
                           ty |-> t1],
                          [attr |-> [form |-> "half", a |-> Some(c), b |-> None],
                           ty |-> t2]>>] :
                t1 \in RecordFieldTys(c), t2 \in RecordFieldTys(B - c)} :
            c \in 1 .. B - 1}

InitRecord ==
    /\ kind = "struct"
    /\ len \in 2 .. MaxRecordBits
    /\ decl \in RecordDecls(len)
    /\ gen = <<>>
    /\ val = 0
    /\ last = Call("ready", <<>>, <<>>)
    /\ ub = FALSE
    /\ written = <<>>

\* The record built without error.
Built == kind = "struct" /\ gen # <<>> /\ gen.errors = {}

\* The fields a setter was called for since from_bits.
FieldsSet == {written.sets[k][1] : k \in 1 .. Len(written.sets)}

\* The generated from_bits(value): the record with that raw word.
Record_from_bits ==
    /\ Built /\ Ready /\ written = <<>>
    /\ \E raw \in {0, 2^len - 1} :
        /\ val' = uN_UnsignedInt_new(len, raw)
        /\ written' = [from |-> val', sets |-> <<>>]
        /\ last' = Call("from_bits", <<raw>>, <<val'>>)
    /\ UNCHANGED <<kind, len, ub, decl, gen>>

\* set_<field>(value), for a field not set yet.
Record_set ==
    /\ Built /\ Ready /\ written # <<>>
    /\ \E i \in 1 .. Len(decl.fields) :
        /\ i \notin FieldsSet
        /\ \E v \in FieldValues(decl.fields[i].ty) :
            /\ val' = Generated_setter(decl.bitlen, val, decl.fields[i].ty,
                                       gen.setters[i], v)
            /\ written' = [written EXCEPT !.sets = Append(@, <<i, v>>)]
            /\ last' = Call("set", <<i, v>>, <<val'>>)
    /\ UNCHANGED <<kind, len, ub, decl, gen>>

\* <field>()
Record_get ==
    /\ Built /\ Ready /\ written # <<>>
    /\ \E i \in 1 .. Len(decl.fields) :
        /\ \E r \in Generated_getter(decl.bitlen, val, decl.fields[i].ty, gen.getters[i]) :
            last' = Call("get", <<i>>, <<r>>)
        /\ ub' = (ub \/ Generated_getter_ub(decl.bitlen, val, decl.fields[i].ty,
                                           gen.getters[i]))
    /\ UNCHANGED <<kind, len, val, decl, gen, written>>

\* The generated to_bits(): the raw word.
Record_to_bits ==
    /\ Built /\ Ready /\ written # <<>>
    /\ last' = Call("to_bits", <<>>, <<val>>)
    /\ UNCHANGED <<kind, len, val, ub, decl, gen, written>>

NextRecord ==
    \/ Struct_generate
    \/ Record_from_bits
    \/ Record_set
    \/ Record_get
    \/ Record_to_bits
    \/ Return

SpecRecord == InitRecord /\ [][NextRecord]_vars

(***************************************************************************)
(* struct_.rs: setters of a record called any number of times              *)
(***************************************************************************)

\* The sampled records whose setters are called again and again have a total
\* width of 2 .. MaxSetterBits.
MaxSetterBits == 3

\* The generated with_<field>(value): it calls set_<field> on self and
\* returns self.
Generated_with(bitlen, w, ty, range, value) ==
    Generated_setter(bitlen, w, ty, range, value)

InitSetters ==
    /\ kind = "struct"
    /\ len \in 2 .. MaxSetterBits
    /\ decl \in RecordDecls(len)
    /\ gen = <<>>
    /\ val = 0
    /\ last = Call("ready", <<>>, <<>>)
    /\ ub = FALSE
    /\ written = <<>>

\* written.sets without the entry of field i.
SetsOfOthers(i) ==
    LET Other(e) == e[1] # i
    IN  SelectSeq(written.sets, Other)

\* set_<field>(value), for any field, set before or not; written keeps the
\* value last handed to each field.
Record_set_any ==
    /\ Built /\ Ready /\ written # <<>>
    /\ \E i \in 1 .. Len(decl.fields) :
        \E v \in FieldValues(decl.fields[i].ty) :
            /\ val' = Generated_setter(decl.bitlen, val, decl.fields[i].ty,
                                       gen.setters[i], v)
            /\ written' = [written EXCEPT !.sets = Append(SetsOfOthers(i), <<i, v>>)]
            /\ last' = Call("set", <<i, v, val>>, <<val'>>)
    /\ UNCHANGED <<kind, len, ub, decl, gen>>

\* with_<field>(value), for any field.
Record_with ==
    /\ Built /\ Ready /\ written # <<>>
    /\ \E i \in 1 .. Len(decl.fields) :
        \E v \in FieldValues(decl.fields[i].ty) :
            /\ val' = Generated_with(decl.bitlen, val, decl.fields[i].ty,
                                     gen.setters[i], v)
            /\ written' = [written EXCEPT !.sets = Append(SetsOfOthers(i), <<i, v>>)]
            /\ last' = Call("with", <<i, v, val>>, <<val'>>)
    /\ UNCHANGED <<kind, len, ub, decl, gen>>

NextSetters ==
    \/ Struct_generate
    \/ Record_from_bits
    \/ Record_set_any
    \/ Record_with
    \/ Record_get
    \/ Return

SpecSetters == InitSetters /\ [][NextSetters]_vars

(***************************************************************************)
(* struct_.rs: the accessors generated for an array field [T; L]           *)
(***************************************************************************)

\* The sampled records with an array field have a total width of
\* 2 .. MaxArrayBits.
MaxArrayBits == 3

\* `let offset = #bits_start + elem_len * index as u8`, in u8.
Array_offset(ty, range, index) == as_u8(range.start + as_u8(as_u8(ty.bits) * as_u8(index)))

\* The generated <field>_at(index): what it can return.
Generated_getter_at(bitlen, w, ty, range, index) ==
    IF index < ty.count
    THEN LET elem_len == as_u8(ty.bits)
             offset == Array_offset(ty, range, index)
             extracted_bits == uN_bits(bitlen, w, offset, offset + elem_len)
             extracted_downcast ==
                uN_UnsignedInt_new(ty.bits, uN_UnsignedInt_value(bitlen, extracted_bits))
         IN  {Some(x) : x \in Field_from_bits(ty, extracted_downcast)}
    ELSE {None}

\* from_bits of the element unwraps None: undefined behaviour.
Generated_getter_at_ub(bitlen, w, ty, range, index) ==
    /\ index < ty.count
    /\ LET offset == Array_offset(ty, range, index)
       IN  Generated_getter_ub(bitlen, w, ty,
                               [start |-> offset, end |-> offset + as_u8(ty.bits)])

\* The generated <field>(): core::array::from_fn over <field>_at(i).
Generated_getter_array(bitlen, w, ty, range) ==
    {a \in [1 .. ty.count -> FieldValues(ty)] :
        \A i \in 1 .. ty.count :
            Some(a[i]) \in Generated_getter_at(bitlen, w, ty, range, i - 1)}

\* The generated set_<field>_at(index, value): the new raw word.
Generated_setter_at(bitlen, w, ty, range, index, value) ==
    IF index < ty.count
    THEN LET elem_len == as_u8(ty.bits)
             offset == Array_offset(ty, range, index)
             value_bits == Field_to_bits(ty, value)
             value_upcast ==
                uN_UnsignedInt_new(bitlen, uN_UnsignedInt_value(ty.bits, value_bits))
         IN  uN_with_bits(bitlen, w, offset, offset + elem_len, value_upcast)
    ELSE w

RECURSIVE Generated_setter_array(_, _, _, _, _, _)
\* The generated set_<field>(value): set_<field>_at(i, elem) for the first n
\* elements of value, in order.
Generated_setter_array(bitlen, w, ty, range, value, n) ==
    IF n = 0 THEN w
    ELSE Generated_setter_at(bitlen,
                             Generated_setter_array(bitlen, w, ty, range, value, n - 1),
                             ty, range, n - 1, value[n])

\* The element types of the sampled arrays, of n bits.
ArrayElemTys(n, c) ==
    {[t EXCEPT !.form = "array", !.count = c] : t \in RecordFieldTys(n)}

\* The sampled records of width B: one field, an array of up to two elements
\* of one or two bits, anywhere in the record.
ArrayDecls(B) ==
    UNION {{[bitlen |-> B,
             fields |-> <<[attr |-> [form |-> "half", a |-> Some(p[3]),
                                     b |-> Some(p[3] + p[1] * p[2])],
                           ty |-> t]>>] : t \in ArrayElemTys(p[1], p[2])} :
            p \in {q \in (1 .. 2) \X (0 .. 2) \X (0 .. B) : q[3] + q[1] * q[2] <= B}}

InitArray ==
    /\ kind = "struct"
    /\ len \in 2 .. MaxArrayBits
    /\ decl \in ArrayDecls(len)
    /\ gen = <<>>
    /\ val = 0
    /\ last = Call("ready", <<>>, <<>>)
    /\ ub = FALSE
    /\ written = <<>>

\* <field>_at(index)
Array_at ==
    /\ Built /\ Ready /\ written # <<>>
    /\ \E index \in 0 .. decl.fields[1].ty.count + 1 :
        /\ \E r \in Generated_getter_at(decl.bitlen, val, decl.fields[1].ty,
                                        gen.getters[1], index) :
            last' = Call("at", <<index>>, r)
        /\ ub' = (ub \/ Generated_getter_at_ub(decl.bitlen, val, decl.fields[1].ty,
                                              gen.getters[1], index))
    /\ UNCHANGED <<kind, len, val, decl, gen, written>>

\* set_<field>_at(index, value)
Array_set_at ==
    /\ Built /\ Ready /\ written # <<>>
    /\ \E index \in 0 .. decl.fields[1].ty.count + 1, v \in FieldValues(decl.fields[1].ty) :
        /\ val' = Generated_setter_at(decl.bitlen, val, decl.fields[1].ty,
                                      gen.setters[1], index, v)
        /\ last' = Call("set_at", <<index, v, val>>, <<val'>>)
    /\ UNCHANGED <<kind, len, ub, decl, gen, written>>

\* <field>()
Array_get ==
    /\ Built /\ Ready /\ written # <<>>
    /\ \E a \in Generated_getter_array(decl.bitlen, val, decl.fields[1].ty, gen.getters[1]) :
        last' = Call("get_array", <<>>, <<a>>)
    /\ ub' = (ub \/ \E i \in 0 .. decl.fields[1].ty.count - 1 :
                        Generated_getter_at_ub(decl.bitlen, val, decl.fields[1].ty,
                                               gen.getters[1], i))
    /\ UNCHANGED <<kind, len, val, decl, gen, written>>

\* set_<field>(value)
Array_set ==
    /\ Built /\ Ready /\ written # <<>>
    /\ \E a \in [1 .. decl.fields[1].ty.count -> FieldValues(decl.fields[1].ty)] :
        /\ val' = Generated_setter_array(decl.bitlen, val, decl.fields[1].ty,
                                         gen.setters[1], a, decl.fields[1].ty.count)
        /\ last' = Call("set_array", <<a, val>>, <<val'>>)
    /\ UNCHANGED <<kind, len, ub, decl, gen, written>>

NextArray ==
    \/ Struct_generate
    \/ Record_from_bits
    \/ Array_at
    \/ Array_set_at
    \/ Array_get
    \/ Array_set
    \/ Return

SpecArray == InitArray /\ [][NextArray]_vars

(***************************************************************************)
(* integer.rs, struct_.rs: the types the names uN / iN resolve to          *)
(***************************************************************************)

\* The widths that have a name uN and a name iN.
NamedWidths == 1 .. 64

\* `pub type u~N = UInt<u8, N>` and the like: the backing word of the name,
\* and whether the name is the native integer itself.
Alias(k, N) == [kind |-> k, native |-> IsNative(N), storage |-> StorageBits(N)]

\* <T as UnsignedInt>::BITS or <T as SignedInt>::BITS of the type of kind k
\* and width N. UnsignedInt is implemented for u8, u16, u32, u64 and for
\* UInt<T, LEN>; SignedInt for i8, i16, i32, i64 only, so that an SInt<T, LEN>
\* has no such constant.
Int_BITS(k, N) ==
    IF IsNative(N) THEN Some(N)
    ELSE IF k = "UInt" THEN Some(N)
    ELSE None

InitStorage ==
    /\ kind \in {"UInt", "SInt"}
    /\ len \in NamedWidths
    /\ val = 0
    /\ last = Call("ready", <<>>, <<>>)
    /\ ub = FALSE
    /\ written = <<>>
    /\ decl = <<>>
    /\ gen = <<>>

\* A use of the name uN / iN and of its BITS constant.
Resolve_alias ==
    /\ Ready
    /\ last' = Call("alias", <<kind, len>>, <<Alias(kind, len), Int_BITS(kind, len)>>)
    /\ UNCHANGED <<kind, len, val, ub, decl, written, gen>>

\* #[bitos(bitlen)] on a struct: the raw word of the generated record.
Resolve_inner_ty ==
    /\ Ready /\ gen = <<>>
    /\ \E bitlen \in NamedWidths :
        /\ gen' = [inner_ty |-> BitStruct_inner_ty(bitlen)]
        /\ last' = Call("inner_ty", <<bitlen>>,
                        <<gen'.inner_ty, Alias(gen'.inner_ty.kind, gen'.inner_ty.len)>>)
    /\ UNCHANGED <<kind, len, val, ub, decl, written>>

NextStorage ==
    \/ Resolve_alias
    \/ Resolve_inner_ty
    \/ Return

SpecStorage == InitStorage /\ [][NextStorage]_vars

(***************************************************************************)
(* Properties of the integer state machine                                 *)
(***************************************************************************)

\* C1: UInt<N>::new(x).value() = x & (2^N - 1), and the u64 constructor of
\* every uN (the native ones included) yields v mod 2^N; construction always
\* produces a value.
C1_NewMasks ==
    (kind = "UInt" /\ last.op \in {"new", "trait_new"}) =>
        /\ last.out = <<val>>
        /\ UInt_value(StorageBits(len), len, val) = last.in[1] % (2^len)
        /\ val <= 2^len - 1

\* A construction that truncated: the input had bits above the width.
C1_Witness ==
    /\ kind = "UInt" /\ last.op = "new" /\ len = MaxLen
    /\ last.in[1] > 2^len /\ val > 0 /\ val # last.in[1]

\* C2: SInt<N>::new(x).value() is the integer of [-2^(N-1), 2^(N-1)-1]
\* congruent to x modulo 2^N; the 7-bit pattern 0b100_0000 is -64.
C2_NewSignExtends ==
    (kind = "SInt" /\ last.op = "new") =>
        /\ SInt_value(StorageBits(len), len, val) >= -(2^(len - 1))
        /\ SInt_value(StorageBits(len), len, val) <= 2^(len - 1) - 1
        /\ (val - last.in[1]) % (2^len) = 0
        /\ (len = 7 /\ last.in[1] = 64) => val = -64

C2_Witness == kind = "SInt" /\ last.op = "new" /\ len = 7 /\ last.in[1] = 64 /\ val = -64

\* C3: the stored word of a UInt<N> is at most 2^N - 1 after every
\* construction and mutation, and the condition value() asserts is never false.
C3_UIntInvariant ==
    (kind = "UInt" /\ ~IsNative(len)) =>
        /\ val >= 0 /\ val <= 2^len - 1
        /\ ~ub

\* A write of ones across the top of the width, which new() had to cut.
C3_Witness ==
    /\ kind = "UInt" /\ last.op = "with_bits" /\ len >= 2
    /\ last.in = <<len - 1, StorageBits(len), 2^len - 1>>
    /\ val <= 2^len - 1

\* C4: the stored word of an SInt<N> lies in [-2^(N-1), 2^(N-1)-1] after every
\* construction and mutation, and neither condition value() asserts is ever
\* false, for N = 1 too.
C4_SIntInvariant ==
    (kind = "SInt" /\ ~IsNative(len)) =>
        /\ val >= -(2^(len - 1)) /\ val <= 2^(len - 1) - 1
        /\ ~ub

\* value() of the 1-bit value -1.
C4_Witness == kind = "SInt" /\ len = 1 /\ val = -1 /\ last.op = "value" /\ last.out = <<-1>>

\* C5: try_from(v: u64) fails exactly when v > 2^N - 1; when it succeeds the
\* result is new(v) and its value is v.  For N = 4, 15 fits and 16 does not.
C5_TryFromFits ==
    (kind = "UInt" /\ last.op = "try_from") =>
        LET v == last.in[1]
        IN  /\ (last.out = None) <=> (v > 2^len - 1)
            /\ last.out # None =>
                /\ last.out[1] = v /\ val = v
                /\ last.out[1] = UInt_UnsignedInt_new(StorageBits(len), len, v)
            /\ (len = 4 /\ v = 15) => last.out = <<15>>
            /\ (len = 4 /\ v = 16) => last.out = None

C5_Witness == kind = "UInt" /\ len = 4 /\ last.op = "try_from" /\ last.in = <<16>> /\ last.out = None

\* C7: into_bits of an SInt<N> is the UInt<N> with value s mod 2^N, and
\* from_bits of it is s again; SInt<5>::new(-1) gives 31.
C7_SIntRawBits ==
    (kind = "SInt" /\ ~IsNative(len)) =>
        /\ last.op = "into_bits" => last.out[1] = last.in[1] % (2^len)
        /\ last.op = "from_bits" => val = last.in[1]
        /\ (last.op = "into_bits" /\ len = 5 /\ last.in[1] = -1) => last.out = <<31>>

C7_Witness ==
    /\ kind = "SInt" /\ len = 5 /\ last.op = "from_bits"
    /\ last.in = <<-1, 31>> /\ val = -1

(***************************************************************************)
(* Properties of the conversions and of the generated code                 *)
(***************************************************************************)

\* C6: for every type with a total conversion, from_bits(x.into_bits()) = x;
\* bool maps false to 0 and true to 1.
C6_RoundTrip ==
    /\ last.op = "from_bits" => last.out = <<last.in[1]>>
    /\ (kind = "bool" /\ last.op = "into_bits") =>
            last.out = <<IF last.in[1] THEN 1 ELSE 0>>

\* C8: when the generator emits from_bits for an enum, try_from_bits returns
\* a variant for every raw pattern, and from_bits never unwraps None.
C8_TotalOnlyIfExhaustive ==
    (kind = "enum" /\ gen # <<>>) =>
        /\ gen.bits_impl =>
            \A raw \in EnumRaws(decl.bitlen) :
                Enum_try_from_bits(decl.bitlen, decl.variants, raw) # None
        /\ ~ub

\* C9: try_from_bits returns the variant whose discriminant is the raw value,
\* None when there is none; an enum of 3 variants in 2 bits has exactly one
\* pattern that yields None and no from_bits.
C9_TryFromBitsAbsent ==
    (kind = "enum" /\ gen # <<>>) =>
        /\ last.op = "try_from_bits" =>
            /\ last.out # None => decl.variants[last.out[1]] = last.in[1]
            /\ last.out = None =>
                \A i \in 1 .. Len(decl.variants) : decl.variants[i] # last.in[1]
        /\ (Len(decl.variants) = 3 /\ decl.bitlen = 2) =>
            /\ Cardinality({raw \in EnumRaws(decl.bitlen) :
                    Enum_try_from_bits(decl.bitlen, decl.variants, raw) = None}) = 1
            /\ ~gen.bits_impl

\* C10: a record with two fields whose resolved ranges overlap is rejected
\* at build time, with an error that names one of the two fields.
C10_OverlapRejected ==
    (kind = "struct" /\ gen # <<>>) =>
        \A i \in 1 .. Len(decl.fields), j \in 1 .. Len(decl.fields) :
            (i < j /\ Overlap(StructField_bitrange(decl.fields[i], decl.bitlen),
                              StructField_bitrange(decl.fields[j], decl.bitlen)))
                => \E e \in gen.errors : e[1] \in {i, j}

C12_WrongLengthRejected ==
    (kind = "struct" /\ gen # <<>>) =>
        \A i \in 1 .. Len(decl.fields) :
            LET range == StructField_bitrange(decl.fields[i], decl.bitlen)
                width == IF decl.fields[i].ty.form = "array"
                         THEN decl.fields[i].ty.bits * decl.fields[i].ty.count
                         ELSE decl.fields[i].ty.bits
            IN  /\ range.start <= range.end =>
                    ((<<i, "wrong bit length">> \in gen.errors)
                        <=> (width # range.end - range.start))
                /\ range.start > range.end => <<i, "wrong bit length">> \in gen.errors

\* The half-open span a #[bits(..)] attribute stands for in a record of
\* width B.
ResolvedRange(attr, B) ==
    CASE attr.form = "single" -> [start |-> attr.a[1], end |-> attr.a[1] + 1]
      [] attr.form = "half" ->
            [start |-> IF attr.a = None THEN 0 ELSE attr.a[1],
             end |-> IF attr.b = None THEN B ELSE attr.b[1]]
      [] attr.form = "closed" ->
            [start |-> IF attr.a = None THEN 0 ELSE attr.a[1], end |-> attr.b[1] + 1]

\* C19: #[bits(a)] is [a, a+1), a..b is [a, b), a..=b is [a, b+1), a start
\* left out is 0 and an end left out is the record's width; validation,
\* getter, setter and mask of a field all use that range.
C19_RangeResolution ==
    (kind = "struct" /\ gen # <<>>) =>
        \A i \in 1 .. Len(decl.fields) :
            LET r == ResolvedRange(decl.fields[i].attr, decl.bitlen)
            IN  /\ StructField_bitrange(decl.fields[i], decl.bitlen) = r
                /\ gen.getters[i] = r
                /\ gen.setters[i] = r
                /\ \A k \in 0 .. decl.bitlen + 2 :
                        Prim_bit(gen.masks[i], k)
                            <=> (r.start <= k /\ k < r.end /\ k < decl.bitlen)
                /\ (r.start > decl.bitlen \/ r.end > decl.bitlen)
                        => \E e \in gen.errors : e[1] = i

\* A closed range with its start left out, covering the whole record.
C19_Witness ==
    /\ kind = "struct" /\ gen # <<>> /\ decl.bitlen = 3
    /\ decl.fields[1].attr = [form |-> "closed", a |-> None, b |-> Some(2)]
    /\ gen.getters[1] = [start |-> 0, end |-> 3]
    /\ gen.masks[1] = 7
    /\ gen.errors = {}

\* The value handed to the setter of field i.
ValueSet(i) ==
    LET k == CHOOSE k \in 1 .. Len(written.sets) : written.sets[k][1] = i
    IN  written.sets[k][2]

RECURSIVE PackedFields(_)
\* The raw bits of the values set for fields 1 .. n, each shifted left by
\* the start of its range and added up (the ranges are disjoint).
PackedFields(n) ==
    IF n = 0 THEN 0
    ELSE PackedFields(n - 1)
            + uN_UnsignedInt_value(decl.fields[n].ty.bits,
                                   Field_to_bits(decl.fields[n].ty, ValueSet(n)))
                * (2^(ResolvedRange(decl.fields[n].attr, decl.bitlen).start))

\* C13: in a record with disjoint fields, after from_bits(0) and one setter
\* call per field in any order, to_bits() is the OR of the fields' raw bits
\* shifted to their starts and every getter returns the value that was set;
\* a 6-bit 50 at [0,6) and a 2-bit 2 at [6,8) give 0xB2.
C13_SetThenGet ==
    (Built /\ written # <<>> /\ written.from = 0
            /\ FieldsSet = 1 .. Len(decl.fields)) =>
        /\ val = PackedFields(Len(decl.fields))
        /\ last.op = "to_bits" => last.out = <<PackedFields(Len(decl.fields))>>
        /\ last.op = "get" => last.out = <<ValueSet(last.in[1])>>
        /\ (/\ decl.bitlen = 8 /\ gen.getters[1] = [start |-> 0, end |-> 6]
            /\ decl.fields[1].ty.kind = "UInt" /\ decl.fields[2].ty.kind = "UInt"
            /\ ValueSet(1) = 50 /\ ValueSet(2) = 2) => val = 178

(***************************************************************************)
(* Properties of the bit-range operations of UInt and SInt                 *)
(***************************************************************************)

\* Bit i of the two's-complement pattern of the W-bit word x.
PatternBit(x, W, i) == (ToBits(x, W) \div (2^i)) % 2

\* The word x is a normalised value of the wrapper of kind k and width LEN.
Normalised(k, LEN, x) ==
    IF k = "SInt" THEN x >= -(2^(LEN - 1)) /\ x <= 2^(LEN - 1) - 1
    ELSE x >= 0 /\ x <= 2^LEN - 1

\* C14: for start <= end <= W, with_bits(start, end, value) puts the low
\* end - start bits of value at [start, end) and leaves the other bits as
\* they were, and bits(start, end) is the bits [start, end) of the word
\* shifted down to bit 0; both results are normalised to N bits.
C14_WithBitsFrame ==
    [][(IsWrapper /\ last'.op \in {"with_bits", "bits"}) =>
        LET W == StorageBits(len)
            s == last'.in[1]
            e == last'.in[2]
        IN  /\ Normalised(kind, len, val')
            /\ last'.op = "with_bits" =>
                \A i \in 0 .. len - 1 :
                    PatternBit(val', W, i)
                        = IF s <= i /\ i < e THEN PatternBit(last'.in[3], W, i - s)
                          ELSE PatternBit(val, W, i)
            /\ last'.op = "bits" =>
                \A i \in 0 .. len - 1 :
                    PatternBit(val', W, i)
                        = IF i < e - s THEN PatternBit(val, W, s + i) ELSE 0]_vars

\* Ones written over bits 1 .. 7 of an i4, across the top of its width.
C14_Witness ==
    /\ kind = "SInt" /\ len = 4 /\ last.op = "with_bits"
    /\ last.in = <<1, 8, -1>> /\ val < 0

\* C17: try_bit, try_with_bit, try_bits and try_with_bits return None when
\* the index is not below W or the range is not start <= end <= W, otherwise
\* Some of what the unchecked operation returns, normalised to N bits; no
\* asserted condition is ever false.
C17_CheckedNeverFault ==
    [][(IsWrapper /\ last'.op \in {"try_bit", "try_with_bit", "try_bits", "try_with_bits"}) =>
        LET W == StorageBits(len)
            in == last'.in
            out == last'.out
        IN  /\ ~ub'
            /\ last'.op = "try_bit" =>
                out = IF in[1] < W THEN Some(Bit(kind, W, len, val, in[1])) ELSE None
            /\ last'.op = "try_with_bit" =>
                out = IF in[1] < W THEN Some(WithBit(kind, W, len, val, in[1], in[2]))
                      ELSE None
            /\ last'.op = "try_bits" =>
                out = IF in[1] <= in[2] /\ in[2] <= W
                      THEN Some(BitsOf(kind, W, len, val, in[1], in[2])) ELSE None
            /\ last'.op = "try_with_bits" =>
                out = IF in[1] <= in[2] /\ in[2] <= W
                      THEN Some(WithBits(kind, W, len, val, in[1], in[2], in[3])) ELSE None
            /\ (out # None /\ last'.op # "try_bit") =>
                    (val' = out[1] /\ Normalised(kind, len, out[1]))
            /\ out = None => val' = val]_vars

\* An index equal to W is refused on a u3 that holds a value.
C17_Witness ==
    /\ kind = "UInt" /\ len = 3 /\ val = 5
    /\ last.op = "try_with_bit" /\ last.in = <<8, TRUE>> /\ last.out = None

\* C18: the bit-range operations of SInt<N> work on the N-bit pattern of the
\* value: bits(start, end) is new of the bits [start, end) of the value
\* masked to N bits (positions from N on read as zero), and with_bit and
\* with_bits are new of that pattern with the range replaced.
C18_SIntPattern ==
    [][(kind = "SInt" /\ IsWrapper /\ last'.op \in {"bits", "with_bit", "with_bits"}) =>
        LET W == StorageBits(len)
            in == last'.in
            pattern == ToBits(val, W) % (2^len)
        IN  /\ last'.op = "bits" =>
                val' = SInt_new(W, len, ToSigned(Prim_bits(pattern, in[1], in[2]), W))
            /\ last'.op = "with_bit" =>
                val' = SInt_new(W, len, ToSigned(Prim_with_bit(pattern, in[1], in[2]), W))
            /\ last'.op = "with_bits" =>
                val' = SInt_new(W, len,
                            ToSigned(Prim_with_bits(pattern, in[1], in[2],
                                                    ToBits(in[3], W)), W))]_vars

\* C15: for start <= end <= W, w.with_bits(start, end, w.bits(start, end))
\* is w.
C15_WriteBackIsIdentity ==
    (IsWrapper /\ last.op = "with_bits_of_bits") =>
        /\ last.out = <<last.in[3]>>
        /\ val = last.in[3]
        /\ ~ub

\* A negative i5 whose bits 1 .. 7 are written back: the range reaches
\* beyond the width.
C15_Witness ==
    /\ kind = "SInt" /\ len = 5 /\ last.op = "with_bits_of_bits"
    /\ last.in = <<1, 8, -16>> /\ val = -16

\* Bit position i lies in the range [s, e).
InRange(i, s, e) == s <= i /\ i < e

\* Two writes: the orders agree when the ranges are disjoint, and when they
\* overlap the bits at the positions 0 .. top - 1 of the result are those of
\* b in its range and those of a in the rest of the first range.
ComposesUpTo(top) ==
    last.op = "with_bits_twice" =>
        LET W == StorageBits(len)
            s1 == last.in[1]
            e1 == last.in[2]
            s2 == last.in[4]
            e2 == last.in[5]
            overlap == \E i \in 0 .. W - 1 : InRange(i, s1, e1) /\ InRange(i, s2, e2)
        IN  /\ ~overlap => last.out[1] = last.out[2]
            /\ overlap =>
                \A i \in 0 .. top - 1 :
                    /\ InRange(i, s2, e2) =>
                        PatternBit(last.out[1], W, i) = PatternBit(last.in[6], W, i - s2)
                    /\ (InRange(i, s1, e1) /\ ~InRange(i, s2, e2)) =>
                        PatternBit(last.out[1], W, i) = PatternBit(last.in[3], W, i - s1)

\* C16 as stated: writes to disjoint ranges commute, and after overlapping
\* writes of a then b every bit of the overlap is b's and the other bits of
\* the first range are a's.
C16_Composition == ComposesUpTo(StorageBits(len))

\* C16 as amended: the same for the bits below the width N; the result is
\* normalised, so the bits from N up are zero (UInt) or copies of the sign
\* bit (SInt).
C16_CompositionBelowWidth ==
    /\ ComposesUpTo(len)
    /\ last.op = "with_bits_twice" => (Normalised(kind, len, val) /\ ~ub)

\* Ones over the whole word, then alternating bits over the top of it.
C16_Witness ==
    /\ kind = "UInt" /\ len = 3 /\ last.op = "with_bits_twice"
    /\ last.in[1] = 0 /\ last.in[2] = 8 /\ last.in[3] = 7
    /\ last.in[4] = 2 /\ last.in[5] = 8 /\ last.in[6] = 5
    /\ val = 7 /\ last.out[2] = 7

\* The smallest of the native bit counts that is at least N.
SmallestNative(N) == CHOOSE w \in {8, 16, 32, 64} : w >= N /\ \A v \in {8, 16, 32, 64} : v >= N => w <= v

\* C20: every width 1 .. 64 is bound to the smallest native word of at least
\* that many bits, the widths 8, 16, 32 and 64 are the native integers, the
\* BITS constant of each type is its width, and the raw word of a record is
\* the unsigned type of exactly the declared width.
C20_StorageDispatch ==
    /\ last.op = "alias" =>
        /\ last.out[1].storage = SmallestNative(len)
        /\ last.out[1].native = (len \in {8, 16, 32, 64})
        /\ last.out[2] = Some(len)
    /\ last.op = "inner_ty" =>
        /\ last.out[1] = [kind |-> "UInt", len |-> last.in[1]]
        /\ last.out[2].storage = SmallestNative(last.in[1])

\* C21: the _MASK constant of a field whose range [start, end) lies in the
\* record (start <= end <= B) is 2^end - 2^start: the bits start .. end - 1
\* and no others, so none at or above B.
C21_MaskValue ==
    (kind = "struct" /\ gen # <<>>) =>
        \A i \in 1 .. Len(decl.fields) :
            LET r == ResolvedRange(decl.fields[i].attr, decl.bitlen)
            IN  (r.start <= r.end /\ r.end <= decl.bitlen) =>
                    /\ gen.masks[i] = 2^r.end - 2^r.start
                    /\ gen.masks[i] < 2^decl.bitlen

\* Two bits in the middle of a record of four, next to a field above them.
C21_Witness ==
    /\ kind = "struct" /\ gen # <<>> /\ decl.bitlen = 4 /\ Len(decl.fields) = 2
    /\ decl.fields[1].attr = [form |-> "half", a |-> Some(1), b |-> Some(3)]
    /\ gen.masks[1] = 6
    /\ gen.masks[2] = 12

\* The value of a field type that the raw bits raw stand for: the number
\* itself, the two's-complement number, the truth value, or the variant (by
\* index) whose discriminant is raw.
Decoded(ty, raw) ==
    CASE ty.kind = "UInt" -> <<raw>>
      [] ty.kind = "SInt" -> <<IF raw >= 2^(ty.bits - 1) THEN raw - 2^ty.bits ELSE raw>>
      [] ty.kind = "bool" -> <<raw = 1>>
      [] ty.kind = "enum" ->
            IF \E k \in 1 .. Len(ty.variants) : ty.variants[k] = raw
            THEN <<CHOOSE k \in 1 .. Len(ty.variants) : ty.variants[k] = raw>>
            ELSE <<>>

\* The bits [r.start, r.end) of the raw word w, moved down to bit 0.
RawBitsIn(w, r) == (w \div (2^r.start)) % (2^(r.end - r.start))

\* C22: after any sequence of setter calls from from_bits(w), a getter
\* returns the value last set for its field, or the value decoded from w's
\* bits in its range if the field was never set; a setter changes no raw bit
\* outside its field's range and no other field's getter result; with_<field>
\* yields the record set_<field> yields.
C22_SettersFrame ==
    (Built /\ written # <<>>) =>
        /\ last.op = "get" =>
            LET i == last.in[1]
                r == ResolvedRange(decl.fields[i].attr, decl.bitlen)
            IN  /\ ~ub
                /\ last.out = IF i \in FieldsSet THEN <<ValueSet(i)>>
                              ELSE Decoded(decl.fields[i].ty, RawBitsIn(written.from, r))
        /\ last.op \in {"set", "with"} =>
            LET i == last.in[1]
                prev == last.in[3]
                r == ResolvedRange(decl.fields[i].attr, decl.bitlen)
            IN  /\ \A k \in 0 .. decl.bitlen - 1 :
                    (k < r.start \/ k >= r.end) => (Prim_bit(val, k) <=> Prim_bit(prev, k))
                /\ \A j \in (1 .. Len(decl.fields)) \ {i} :
                    Generated_getter(decl.bitlen, val, decl.fields[j].ty, gen.getters[j])
                        = Generated_getter(decl.bitlen, prev, decl.fields[j].ty,
                                           gen.getters[j])
                /\ val = Generated_setter(decl.bitlen, prev, decl.fields[i].ty,
                                          gen.setters[i], last.in[2])

\* C23: try_from_bits(x.into_bits()) is Some(x) for every value x of a type
\* with the fallible conversion, every generated enum included: into_bits
\* maps no two values to one raw pattern and yields no pattern try_from_bits
\* rejects.
C23_TryRoundTrip ==
    /\ last.op = "try_from_bits_back" => last.out = Some(last.in[1])
    /\ (kind = "enum" /\ gen # <<>>) =>
        \A i \in 1 .. Len(decl.variants), j \in 1 .. Len(decl.variants) :
            i # j => Enum_into_bits(decl.bitlen, decl.variants, i)
                        # Enum_into_bits(decl.bitlen, decl.variants, j)

\* C24: on a UInt<N> backed by a W-bit word, N < W, an index i with
\* N <= i < W reads false (bit) and Some(false) (try_bit), with_bit and
\* try_with_bit at i return the value as it was, bits(start, end) has no bit
\* set that comes from a position >= N, and try_bit and try_with_bit return
\* None exactly when i >= W.
C24_HighBitsOfUInt ==
    [][(kind = "UInt" /\ IsWrapper) =>
        LET W == StorageBits(len)
            in == last'.in
            out == last'.out
        IN  /\ (last'.op = "bit" /\ len <= in[1] /\ in[1] < W) => out = <<FALSE>>
            /\ last'.op = "try_bit" =>
                /\ out = None <=> in[1] >= W
                /\ (len <= in[1] /\ in[1] < W) => out = Some(FALSE)
            /\ (last'.op = "with_bit" /\ len <= in[1] /\ in[1] < W) =>
                (out = <<val>> /\ val' = val)
            /\ last'.op = "try_with_bit" =>
                /\ out = None <=> in[1] >= W
                /\ (len <= in[1] /\ in[1] < W) => (out = Some(val) /\ val' = val)
            /\ last'.op = "bits" =>
                \A j \in 0 .. W - 1 :
                    PatternBit(val', W, j) = 1 =>
                        (in[1] + j < len /\ PatternBit(val, W, in[1] + j) = 1)]_vars

\* The top bit of the storage word of a u3 is written with true.
C24_Witness ==
    /\ kind = "UInt" /\ len = 3 /\ val = 5
    /\ last.op = "with_bit" /\ last.in = <<7, TRUE>> /\ last.out = <<5>>

\* The range of element i of the array field of the record.
ElementRange(i) ==
    LET r == ResolvedRange(decl.fields[1].attr, decl.bitlen)
        w == decl.fields[1].ty.bits
    IN  [start |-> r.start + i * w, end |-> r.start + (i + 1) * w]

\* The raw word w has the raw bits of the value v of the element type at
\* element i, and the bits of prev everywhere else.
OnlyElementSet(w, prev, i, v) ==
    /\ RawBitsIn(w, ElementRange(i))
            = uN_UnsignedInt_value(decl.fields[1].ty.bits,
                                   Field_to_bits(decl.fields[1].ty, v))
    /\ \A k \in 0 .. decl.bitlen - 1 :
        (k < ElementRange(i).start \/ k >= ElementRange(i).end) =>
            (Prim_bit(w, k) <=> Prim_bit(prev, k))

\* C25: for an array field [T; L] at bit s with elements of w bits,
\* <field>_at(i) is Some of the element decoded from bits [s + i*w, s + (i+1)*w)
\* when i < L and None when i >= L; set_<field>_at(i, v) leaves the raw word
\* alone when i >= L and changes only the bits of element i when i < L; the
\* array getter returns the L elements in index order and the array setter
\* does what setting the elements 0 .. L-1 in order does.
C25_ArrayAccessors ==
    (Built /\ written # <<>> /\ decl.fields[1].ty.form = "array") =>
        LET ty == decl.fields[1].ty
            L == ty.count
        IN  /\ last.op = "at" =>
                /\ ~ub
                /\ last.out = IF last.in[1] < L
                              THEN Decoded(ty, RawBitsIn(val, ElementRange(last.in[1])))
                              ELSE None
            /\ last.op = "set_at" =>
                IF last.in[1] < L
                THEN OnlyElementSet(val, last.in[3], last.in[1], last.in[2])
                ELSE val = last.in[3]
            /\ last.op = "get_array" =>
                /\ ~ub
                /\ Len(last.out[1]) = L
                /\ \A i \in 1 .. L :
                    <<last.out[1][i]>> = Decoded(ty, RawBitsIn(val, ElementRange(i - 1)))
            /\ last.op = "set_array" =>
                /\ \A i \in 1 .. L :
                    RawBitsIn(val, ElementRange(i - 1))
                        = uN_UnsignedInt_value(ty.bits, Field_to_bits(ty, last.in[1][i]))
                /\ \A k \in 0 .. decl.bitlen - 1 :
                    (k < ElementRange(0).start \/ k >= ElementRange(L - 1).end) =>
                        (Prim_bit(val, k) <=> Prim_bit(last.in[2], k))

====
